---- MODULE Spec2Model ----
(***************************************************************************)
(* Model of examples/cli/main.go: one run of the command line tool.        *)
(* A run parses its flags, builds the HTTP transport, creates the client,  *)
(* logs in, and dispatches on the command; the three listing commands walk *)
(* server-supplied records and decide, call by call, whether a failure is  *)
(* fatal or tolerated.                                                     *)
(*                                                                         *)
(* The Session Provider (package proxmox) is outside the program: every    *)
(* call to it returns either an error or a result chosen from a bounded    *)
(* set.  The model keeps the history of a run in three sequences: calls    *)
(* (the Session Provider calls made, in order), stdout (package fmt) and   *)
(* stderr (package log, and the runtime's panic report).                   *)
(***************************************************************************)
EXTENDS Integers, Sequences, FiniteSets, TLC

\* ------------------------------------------------------------------ bounds
\* Longest top-level listing (GetNodeList / GetVmList) a run receives.
MaxRecords == 2
\* Longest per-node storage listing (ListStorages) a run receives.
MaxStorages == 1
\* Longest -username / -realm value in the normalization specification.
MaxStrLen == 2

\* ------------------------------------------------------------------ inputs
\* Characters of a -username / -realm value.
Alphabet == {"r", "@"}
Strings == UNION {[1..n -> Alphabet] : n \in 0..MaxStrLen}

\* The flag defaults "root" and "pam", abbreviated to one character each.
DefaultUsername == <<"r">>
DefaultRealm == <<"p">>

HelpCommands == {"h", "help"}
ListCommands == {"l", "ls", "list"}
\* "login" is named by the usage text, "foo" is not; neither is a case of
\* the command switch.
OtherCommands == {"login", "foo"}
Commands == HelpCommands \cup ListCommands \cup OtherCommands

ClusterTokens == {"c", "cluster", "clusters"}
NodeTokens == {"n", "node", "nodes"}
StorageTokens == {"s", "storage"}
VmTokens == {"v", "vm", "vms"}
\* "bar" and "list" are no case of the object-type switch.
OtherTokens == {"bar", "list"}
Tokens == ClusterTokens \cup NodeTokens \cup StorageTokens \cup VmTokens \cup OtherTokens

\* The positional arguments (flag.Args()) of a run.
ArgLists == {<<>>} \cup {<<c>> : c \in Commands} \cup {<<c, t>> : c \in Commands, t \in Tokens}

\* ----------------------------------------------------------------- records
\* A decoded value found under a record's identity key: a string, a value
\* of another type, or nothing (the key is absent).
StringId == [t |-> "string", v |-> "a"]
AbsentId == [t |-> "absent", v |-> ""]
NumberId == [t |-> "number", v |-> "1"]
\* The attribute names a record may carry besides its identity key.
OtherAttrs == {"cpu"}
\* The records a listing is made of: a well-formed record with and without
\* other attributes, one without its identity key, and one whose identity
\* is not a string.
Records ==
  {[id |-> StringId, attrs |-> {}], [id |-> StringId, attrs |-> OtherAttrs],
   [id |-> AbsentId, attrs |-> OtherAttrs], [id |-> NumberId, attrs |-> {}]}
Listings == UNION {[1..n -> Records] : n \in 0..MaxRecords}
StorageListings == UNION {[1..n -> Records] : n \in 0..MaxStorages}
\* What GetVmConfig and GetVmAgentNetworkInterfaces return on success.
ConfigAttrs == {"cores"}
InterfaceLists == {<<>>, <<"eth0">>}

VARIABLES
  args,               \* flag.Args()
  username,           \* -username
  realm,              \* -realm
  debug,              \* -debug
  skipTLSVerify,      \* -skiptls
  pc,                 \* the position of main
  insecureSkipVerify, \* httpClient.Transport's TLSClientConfig.InsecureSkipVerify
  usernameWithRealm,  \* the principal passed to Login
  calls,              \* the Session Provider calls made so far
  stdout,             \* the lines printed with fmt
  stderr,             \* the lines printed with log, and the panic report
  exitCode,           \* -1 while running, else the exit status
  listing,            \* nodes / vms: the top-level listing being walked
  idx                 \* the position of the loop over listing

vars == <<args, username, realm, debug, skipTLSVerify, pc, insecureSkipVerify,
          usernameWithRealm, calls, stdout, stderr, exitCode, listing, idx>>
flags == <<args, username, realm, debug, skipTLSVerify>>

\* flag.Arg(i), flag.NArg()
Arg(i) == IF i + 1 <= Len(args) THEN args[i + 1] ELSE ""
NArg == Len(args)
Command == Arg(0)

Line(k, i, s) == [k |-> k, i |-> i, s |-> s]
Call(op, i, arg, ok) == [op |-> op, i |-> i, arg |-> arg, ok |-> ok, insecure |-> insecureSkipVerify]

\* log.Fatalln / log.Fatalf: the message on stderr, then os.Exit(1).
Fatal(msg) ==
  /\ stderr' = Append(stderr, Line("fatal", 0, msg))
  /\ exitCode' = 1
  /\ pc' = "done"

\* A failed type assertion without comma-ok: the runtime reports the panic
\* and the process ends with status 2.
Panic(i, what) ==
  /\ stderr' = Append(stderr, Line("panic", i, what))
  /\ exitCode' = 2
  /\ pc' = "done"

\* os.Exit(code), or main returning (code 0).
Exit(code) ==
  /\ exitCode' = code
  /\ pc' = "done"

\* ------------------------------------------------------------- pure helpers
\* strings.Contains(s, "@") and the number of "@" in s.
Contains(s, c) == \E i \in DOMAIN s : s[i] = c
CountAt(s) == Cardinality({i \in DOMAIN s : s[i] = "@"})

\* A plausible slip: the realm is appended whether or not one is embedded.
NormalizeAlwaysAppends(u, r) == u \o <<"@">> \o r

\* usernameWithRealm as main computes it from -username and -realm.
Normalize(u, r) == IF ~Contains(u, "@") THEN u \o <<"@">> \o r ELSE u

\* A plausible slip: the transport is left as http.DefaultClient has it.
TransportLeftDefault(skip, cur) == cur

\* httpClient.Transport after the skiptls test: InsecureSkipVerify is set
\* on a fresh transport only when -skiptls is given.
TransportInsecure(skip, cur) == IF skip THEN TRUE ELSE cur

\* usage(): the usage text on stdout.
UsageLines == <<Line("usage", 0, "")>>

\* help(command): the text for "list", else "Unknown command: <command>".
HelpLines(command) ==
  IF command = "list" THEN <<Line("helpList", 0, "")>>
  ELSE <<Line("unknownCommand", 0, command)>>

\* The orders in which a range over a Go map may visit the attribute names S.
Orders(S) == {o \in [1..Cardinality(S) -> S] : \A a, b \in DOMAIN o : a # b => o[a] # o[b]}

\* v, ok := m[key].(string): the string, or "" when absent or not a string.
NameOrEmpty(id) == IF id.t = "string" THEN id.v ELSE ""

\* The ways one record prints: its header line, then one line per remaining
\* attribute (the identity key is skipped), in any order.
RecordLines(rec, hk, ak, i) ==
  {<<Line(hk, i, NameOrEmpty(rec.id))>> \o [j \in DOMAIN o |-> Line(ak, i, o[j])] : o \in Orders(rec.attrs)}

\* ------------------------------------------------------------------- main
Init ==
  /\ args \in ArgLists
  /\ username = DefaultUsername
  /\ realm = DefaultRealm
  /\ debug \in BOOLEAN
  /\ skipTLSVerify \in BOOLEAN
  /\ pc = "start"
  /\ insecureSkipVerify = FALSE
  /\ usernameWithRealm = <<>>
  /\ calls = <<>>
  /\ stdout = <<>>
  /\ stderr = <<>>
  /\ exitCode = -1
  /\ listing = <<>>
  /\ idx = 0

\* flag.Parse up to the construction of the transport.
Start ==
  /\ pc = "start"
  /\ \/ /\ Command = ""
        /\ stdout' = stdout \o UsageLines
        /\ Exit(1)
        /\ UNCHANGED <<stderr, insecureSkipVerify>>
     \/ /\ Command # ""
        /\ stderr' = IF debug
                     THEN Append(stderr, Line("debug", 0, IF skipTLSVerify THEN "skipping tls? true" ELSE "skipping tls? false"))
                     ELSE stderr
        /\ insecureSkipVerify' = TransportInsecure(skipTLSVerify, insecureSkipVerify)
        /\ pc' = "newClient"
        /\ UNCHANGED <<stdout, exitCode>>
  /\ UNCHANGED <<flags, usernameWithRealm, calls, listing, idx>>

\* proxmox.NewClient: a local constructor, which may refuse its arguments.
NewClient ==
  /\ pc = "newClient"
  /\ \/ /\ pc' = "login"
        /\ UNCHANGED <<stderr, exitCode>>
     \/ Fatal("Failed to create client")
  /\ UNCHANGED <<flags, insecureSkipVerify, usernameWithRealm, calls, stdout, listing, idx>>

\* A plausible slip: the login error is dropped and the run goes on.
LoginFailIgnored ==
  /\ pc = "login"
  /\ usernameWithRealm' = Normalize(username, realm)
  /\ calls' = Append(calls, Call("Login", 0, "", FALSE))
  /\ pc' = "dispatch"
  /\ UNCHANGED <<flags, insecureSkipVerify, stdout, stderr, exitCode, listing, idx>>

\* client.Login returns an error.
LoginFail ==
  /\ pc = "login"
  /\ usernameWithRealm' = Normalize(username, realm)
  /\ calls' = Append(calls, Call("Login", 0, "", FALSE))
  /\ Fatal("Failed to login")
  /\ UNCHANGED <<flags, insecureSkipVerify, stdout, listing, idx>>

\* client.Login succeeds.
LoginOk ==
  /\ pc = "login"
  /\ usernameWithRealm' = Normalize(username, realm)
  /\ calls' = Append(calls, Call("Login", 0, "", TRUE))
  /\ pc' = "dispatch"
  /\ UNCHANGED <<flags, insecureSkipVerify, stdout, stderr, exitCode, listing, idx>>

Login == LoginOk \/ LoginFail

\* A plausible slip: help ends like the no-command case, with status 1.
DispatchHelpExits1 ==
  /\ pc = "dispatch"
  /\ Command \in HelpCommands
  /\ stdout' = stdout \o (IF NArg = 2 THEN HelpLines(Command) ELSE UsageLines)
  /\ Exit(1)
  /\ UNCHANGED <<flags, insecureSkipVerify, usernameWithRealm, calls, stderr, listing, idx>>

\* case "h", "help": help(command) when exactly two arguments were given,
\* else usage(); both exit with status 0.
DispatchHelp ==
  /\ pc = "dispatch"
  /\ Command \in HelpCommands
  /\ stdout' = stdout \o (IF NArg = 2 THEN HelpLines(Command) ELSE UsageLines)
  /\ Exit(0)
  /\ UNCHANGED <<flags, insecureSkipVerify, usernameWithRealm, calls, stderr, listing, idx>>

\* case "l", "ls", "list": the switch on flag.Arg(1).
DispatchList ==
  /\ pc = "dispatch"
  /\ Command \in ListCommands
  /\ \/ /\ Arg(1) \in ClusterTokens
        /\ pc' = "listClusters"
        /\ UNCHANGED <<stdout, exitCode>>
     \/ /\ Arg(1) \in NodeTokens
        /\ pc' = "listNodes"
        /\ UNCHANGED <<stdout, exitCode>>
     \/ /\ Arg(1) \in StorageTokens
        /\ pc' = "listStorages"
        /\ UNCHANGED <<stdout, exitCode>>
     \/ /\ Arg(1) \in VmTokens
        /\ pc' = "listVMs"
        /\ UNCHANGED <<stdout, exitCode>>
     \/ /\ Arg(1) \notin ClusterTokens \cup NodeTokens \cup StorageTokens \cup VmTokens
        /\ stdout' = stdout \o HelpLines(Command)
        /\ Exit(0)
  /\ UNCHANGED <<flags, insecureSkipVerify, usernameWithRealm, calls, stderr, listing, idx>>

\* The command switch has no default case: any other command falls out of
\* it and main returns.
DispatchOther ==
  /\ pc = "dispatch"
  /\ Command \notin HelpCommands \cup ListCommands
  /\ Exit(0)
  /\ UNCHANGED <<flags, insecureSkipVerify, usernameWithRealm, calls, stdout, stderr, listing, idx>>

Dispatch == DispatchHelp \/ DispatchList \/ DispatchOther

\* A plausible slip: the listing sketched in the TODO comment is issued.
ListClustersCallsProvider ==
  /\ pc = "listClusters"
  /\ calls' = Append(calls, Call("GetClusterList", 0, "", FALSE))
  /\ Fatal("Failed to list clusters")
  /\ UNCHANGED <<flags, insecureSkipVerify, usernameWithRealm, stdout, listing, idx>>

\* listClusters: fatal at once, no call is made.
ListClusters ==
  /\ pc = "listClusters"
  /\ Fatal("Cluster operations are not yet supported :(")
  /\ UNCHANGED <<flags, insecureSkipVerify, usernameWithRealm, calls, stdout, listing, idx>>

\* --------------------------------------------------------------- listNodes
\* client.GetNodeList in listNodes: fatal on error.
ListNodesFetch ==
  /\ pc = "listNodes"
  /\ \/ /\ calls' = Append(calls, Call("GetNodeList", 0, "", FALSE))
        /\ Fatal("Failed to list nodes")
        /\ UNCHANGED <<listing, idx>>
     \/ /\ calls' = Append(calls, Call("GetNodeList", 0, "", TRUE))
        /\ listing' \in Listings
        /\ idx' = 1
        /\ pc' = "nodeLoop"
        /\ UNCHANGED <<stderr, exitCode>>
  /\ UNCHANGED <<flags, insecureSkipVerify, usernameWithRealm, stdout>>

\* One pass of the loop of listNodes: name, _ := ...["node"].(string), the
\* name, then the other attributes.
NodeRecord ==
  /\ pc = "nodeLoop"
  /\ idx <= Len(listing)
  /\ \E out \in RecordLines(listing[idx], "nodeHeader", "nodeAttr", idx) : stdout' = stdout \o out
  /\ idx' = idx + 1
  /\ UNCHANGED <<flags, pc, insecureSkipVerify, usernameWithRealm, calls, stderr, exitCode, listing>>

\* ------------------------------------------------------------ listStorages
\* client.GetNodeList in listStorages: fatal on error.
ListStoragesFetch ==
  /\ pc = "listStorages"
  /\ \/ /\ calls' = Append(calls, Call("GetNodeList", 0, "", FALSE))
        /\ Fatal("Failed to list nodes")
        /\ UNCHANGED <<listing, idx>>
     \/ /\ calls' = Append(calls, Call("GetNodeList", 0, "", TRUE))
        /\ listing' \in Listings
        /\ idx' = 1
        /\ pc' = "storageLoop"
        /\ UNCHANGED <<stderr, exitCode>>
  /\ UNCHANGED <<flags, insecureSkipVerify, usernameWithRealm, stdout>>

\* A plausible slip: the identity is read with comma-ok, as listNodes does.
StorageNodeTolerant ==
  /\ pc = "storageLoop"
  /\ idx <= Len(listing)
  /\ stdout' = Append(stdout, Line("nodeHeader", idx, NameOrEmpty(listing[idx].id)))
  /\ pc' = "storageFetch"
  /\ UNCHANGED <<flags, insecureSkipVerify, usernameWithRealm, calls, stderr, exitCode, listing, idx>>

\* The head of one pass of the loop of listStorages:
\* nodeName := ...["node"].(string) panics unless the identity is a string;
\* then the name is printed.
StorageNode ==
  /\ pc = "storageLoop"
  /\ idx <= Len(listing)
  /\ \/ /\ listing[idx].id.t # "string"
        /\ Panic(idx, "node")
        /\ UNCHANGED stdout
     \/ /\ listing[idx].id.t = "string"
        /\ stdout' = Append(stdout, Line("nodeHeader", idx, listing[idx].id.v))
        /\ pc' = "storageFetch"
        /\ UNCHANGED <<stderr, exitCode>>
  /\ UNCHANGED <<flags, insecureSkipVerify, usernameWithRealm, calls, listing, idx>>

\* What the loop over one node's storages prints, and whether it panicked:
\* storageName := ...["storage"].(string) panics on the first record whose
\* identity is not a string, after the records before it were printed.
RECURSIVE StorageOutputs(_, _)
StorageOutputs(ss, i) ==
  IF ss = <<>> THEN {[lines |-> <<>>, panicked |-> FALSE]}
  ELSE IF Head(ss).id.t # "string" THEN {[lines |-> <<>>, panicked |-> TRUE]}
  ELSE {[lines |-> h \o r.lines, panicked |-> r.panicked] :
          h \in RecordLines(Head(ss), "storageHeader", "storageAttr", i),
          r \in StorageOutputs(Tail(ss), i)}

\* A plausible slip: the failure is reported and the loop goes on to the
\* next node.
StorageFetchFailSkips ==
  /\ pc = "storageFetch"
  /\ calls' = Append(calls, Call("ListStorages", idx, listing[idx].id.v, FALSE))
  /\ stderr' = Append(stderr, Line("error", idx, "Failed to fetch storages for node"))
  /\ idx' = idx + 1
  /\ pc' = "storageLoop"
  /\ UNCHANGED <<flags, insecureSkipVerify, usernameWithRealm, stdout, exitCode, listing>>

\* client.ListStorages(nodeName) returns an error: log.Fatalf.
StorageFetchFail ==
  /\ pc = "storageFetch"
  /\ calls' = Append(calls, Call("ListStorages", idx, listing[idx].id.v, FALSE))
  /\ Fatal("Failed to fetch storages for node")
  /\ UNCHANGED <<flags, insecureSkipVerify, usernameWithRealm, stdout, listing, idx>>

\* client.ListStorages(nodeName) succeeds: its storages are printed.
StorageFetchOk ==
  /\ pc = "storageFetch"
  /\ calls' = Append(calls, Call("ListStorages", idx, listing[idx].id.v, TRUE))
  /\ \E ss \in StorageListings : \E out \in StorageOutputs(ss, idx) :
       /\ stdout' = stdout \o out.lines
       /\ IF out.panicked
          THEN Panic(idx, "storage") /\ UNCHANGED idx
          ELSE idx' = idx + 1 /\ pc' = "storageLoop" /\ UNCHANGED <<stderr, exitCode>>
  /\ UNCHANGED <<flags, insecureSkipVerify, usernameWithRealm, listing>>

StorageFetch == StorageFetchOk \/ StorageFetchFail

\* ----------------------------------------------------------------- listVMs
\* client.GetVmList: fatal on error.
ListVMsFetch ==
  /\ pc = "listVMs"
  /\ \/ /\ calls' = Append(calls, Call("GetVmList", 0, "", FALSE))
        /\ Fatal("Failed to list VMs")
        /\ UNCHANGED <<listing, idx>>
     \/ /\ calls' = Append(calls, Call("GetVmList", 0, "", TRUE))
        /\ listing' \in Listings
        /\ idx' = 1
        /\ pc' = "vmLoop"
        /\ UNCHANGED <<stderr, exitCode>>
  /\ UNCHANGED <<flags, insecureSkipVerify, usernameWithRealm, stdout>>

\* The head of one pass of the loop of listVMs: name, _ := ...["name"].(string),
\* the name, " Status:" and the other attributes.
VmStatus ==
  /\ pc = "vmLoop"
  /\ idx <= Len(listing)
  /\ \E o \in Orders(listing[idx].attrs) :
       stdout' = stdout \o <<Line("vmHeader", idx, NameOrEmpty(listing[idx].id)), Line("statusLabel", idx, "")>>
                        \o [j \in DOMAIN o |-> Line("vmAttr", idx, o[j])]
  /\ pc' = "vmRef"
  /\ UNCHANGED <<flags, insecureSkipVerify, usernameWithRealm, calls, stderr, exitCode, listing, idx>>

\* A plausible slip: a record whose reference cannot be resolved is skipped.
VmRefFailSkips ==
  /\ pc = "vmRef"
  /\ calls' = Append(calls, Call("GetVmRefByName", idx, NameOrEmpty(listing[idx].id), FALSE))
  /\ idx' = idx + 1
  /\ pc' = "vmLoop"
  /\ UNCHANGED <<flags, insecureSkipVerify, usernameWithRealm, stdout, stderr, exitCode, listing>>

\* client.GetVmRefByName(name) returns an error: fatal.
VmRefFail ==
  /\ pc = "vmRef"
  /\ calls' = Append(calls, Call("GetVmRefByName", idx, NameOrEmpty(listing[idx].id), FALSE))
  /\ Fatal("Failed to get VM reference")
  /\ UNCHANGED <<flags, insecureSkipVerify, usernameWithRealm, stdout, listing, idx>>

\* client.GetVmRefByName(name) succeeds.
VmRefOk ==
  /\ pc = "vmRef"
  /\ calls' = Append(calls, Call("GetVmRefByName", idx, NameOrEmpty(listing[idx].id), TRUE))
  /\ pc' = "vmConfig"
  /\ UNCHANGED <<flags, insecureSkipVerify, usernameWithRealm, stdout, stderr, exitCode, listing, idx>>

VmRef == VmRefOk \/ VmRefFail

\* client.GetVmConfig(vmRef): fatal on error; else " Config:", the
\* configuration's attributes and " Agent network interfaces:".
VmConfig ==
  /\ pc = "vmConfig"
  /\ \/ /\ calls' = Append(calls, Call("GetVmConfig", idx, NameOrEmpty(listing[idx].id), FALSE))
        /\ Fatal("Failed to get VM config")
        /\ UNCHANGED stdout
     \/ /\ calls' = Append(calls, Call("GetVmConfig", idx, NameOrEmpty(listing[idx].id), TRUE))
        /\ \E o \in Orders(ConfigAttrs) :
             stdout' = stdout \o <<Line("configLabel", idx, "")>>
                              \o [j \in DOMAIN o |-> Line("configAttr", idx, o[j])]
                              \o <<Line("agentLabel", idx, "")>>
        /\ pc' = "vmAgent"
        /\ UNCHANGED <<stderr, exitCode>>
  /\ UNCHANGED <<flags, insecureSkipVerify, usernameWithRealm, listing, idx>>

\* A plausible slip: the agent failure is handled like the two before it.
VmAgentFailFatal ==
  /\ pc = "vmAgent"
  /\ calls' = Append(calls, Call("GetVmAgentNetworkInterfaces", idx, NameOrEmpty(listing[idx].id), FALSE))
  /\ Fatal("Failed to get agent network interfaces")
  /\ UNCHANGED <<flags, insecureSkipVerify, usernameWithRealm, stdout, listing, idx>>

\* client.GetVmAgentNetworkInterfaces(vmRef) returns an error: the
\* "Not available" line, and the loop goes on.
VmAgentFail ==
  /\ pc = "vmAgent"
  /\ calls' = Append(calls, Call("GetVmAgentNetworkInterfaces", idx, NameOrEmpty(listing[idx].id), FALSE))
  /\ stdout' = Append(stdout, Line("notAvailable", idx, ""))
  /\ idx' = idx + 1
  /\ pc' = "vmLoop"
  /\ UNCHANGED <<flags, insecureSkipVerify, usernameWithRealm, stderr, exitCode, listing>>

\* client.GetVmAgentNetworkInterfaces(vmRef) succeeds: one line per interface.
VmAgentOk ==
  /\ pc = "vmAgent"
  /\ calls' = Append(calls, Call("GetVmAgentNetworkInterfaces", idx, NameOrEmpty(listing[idx].id), TRUE))
  /\ \E ifs \in InterfaceLists :
       stdout' = stdout \o [j \in DOMAIN ifs |-> Line("agentInterface", idx, ifs[j])]
  /\ idx' = idx + 1
  /\ pc' = "vmLoop"
  /\ UNCHANGED <<flags, insecureSkipVerify, usernameWithRealm, stderr, exitCode, listing>>

VmAgent == VmAgentOk \/ VmAgentFail

\* The loop of a listing function is over: the function returns to main,
\* which returns.
Return ==
  /\ pc \in {"nodeLoop", "storageLoop", "vmLoop"}
  /\ idx > Len(listing)
  /\ Exit(0)
  /\ UNCHANGED <<flags, insecureSkipVerify, usernameWithRealm, calls, stdout, stderr, listing, idx>>

Next ==
  \/ Start \/ NewClient \/ Login \/ Dispatch
  \/ ListClusters
  \/ ListNodesFetch \/ NodeRecord
  \/ ListStoragesFetch \/ StorageNode \/ StorageFetch
  \/ ListVMsFetch \/ VmStatus \/ VmRef \/ VmConfig \/ VmAgent
  \/ Return

Spec == Init /\ [][Next]_vars

\* ------------------------------------------------- normalization in isolation
\* The runs up to Login, for every -username and -realm over Alphabet.
InitNormalize ==
  /\ args \in {<<>>, <<"login">>}
  /\ username \in Strings
  /\ realm \in Strings
  /\ debug \in BOOLEAN
  /\ skipTLSVerify = FALSE
  /\ pc = "start"
  /\ insecureSkipVerify = FALSE
  /\ usernameWithRealm = <<>>
  /\ calls = <<>>
  /\ stdout = <<>>
  /\ stderr = <<>>
  /\ exitCode = -1
  /\ listing = <<>>
  /\ idx = 0

NextNormalize == Start \/ NewClient \/ Login

SpecNormalize == InitNormalize /\ [][NextNormalize]_vars

\* ------------------------------------------------------------- properties
Done == pc = "done"
CallsOf(op) == {j \in DOMAIN calls : calls[j].op = op}
Succeeded(op) == \E j \in CallsOf(op) : calls[j].ok
Failed(op) == \E j \in CallsOf(op) : ~calls[j].ok
ListRun(tokens) == Command \in ListCommands /\ Arg(1) \in tokens
Printed(line) == \E l \in DOMAIN stdout : stdout[l] = line
LastError == stderr[Len(stderr)]
Malformed(i) == listing[i].id.t # "string"
VmOps == {"GetVmRefByName", "GetVmConfig", "GetVmAgentNetworkInterfaces"}

\* C1: in `list storage`, a failed ListStorages ends the run at that point
\* with a non-zero exit: it is the last call of the run, so ListStorages is
\* never called for a later node, and no line is printed for a later node.
C1_StorageFailureIsFatal ==
  \A j \in CallsOf("ListStorages") :
    ~calls[j].ok =>
      /\ Done
      /\ exitCode = 1
      /\ j = Len(calls)
      /\ \A l \in DOMAIN stdout : stdout[l].i <= calls[j].i

\* C1 witness: ListStorages failed for the first node of a listing whose
\* second node is well formed.
C1_Witness ==
  /\ ListRun(StorageTokens)
  /\ Len(listing) = 2
  /\ ~Malformed(2)
  /\ \E j \in CallsOf("ListStorages") : calls[j].i = 1 /\ ~calls[j].ok

\* C2: in `list vm`, a failed GetVmAgentNetworkInterfaces never ends the
\* run: its record gets a "Not available" line, and a run in which every
\* other call succeeded visits every record and exits 0.
C2_AgentFailureTolerated ==
  /\ \A j \in CallsOf("GetVmAgentNetworkInterfaces") :
       ~calls[j].ok =>
         /\ Printed(Line("notAvailable", calls[j].i, ""))
         /\ exitCode = 1 => j < Len(calls)
  /\ ( /\ Done
       /\ Succeeded("GetVmList")
       /\ \A j \in DOMAIN calls : calls[j].op # "GetVmAgentNetworkInterfaces" => calls[j].ok )
     => /\ exitCode = 0
        /\ \A i \in 1..Len(listing) :
             \E j \in CallsOf("GetVmAgentNetworkInterfaces") : calls[j].i = i

\* C2 witness: a finished run over two VM records whose agent fetch failed
\* for the first and succeeded for the second.
C2_Witness ==
  /\ Done
  /\ exitCode = 0
  /\ Len(listing) = 2
  /\ \E j, k \in CallsOf("GetVmAgentNetworkInterfaces") :
       /\ calls[j].i = 1 /\ ~calls[j].ok
       /\ calls[k].i = 2 /\ calls[k].ok

\* C3 as stated: a `list cluster` run makes no Session Provider call at all,
\* Login included, and ends fatally with the "unsupported" message.
C3_Original ==
  ListRun(ClusterTokens) =>
    /\ calls = <<>>
    /\ Done => /\ exitCode = 1
               /\ LastError = Line("fatal", 0, "Cluster operations are not yet supported :(")

\* C3 amended: a `list cluster` run always ends fatally without any listing
\* call and without output; Login is its only Session Provider call, and the
\* fatal message is the "unsupported" one exactly when Login succeeded.
C3_ClusterFatalAfterLogin ==
  ListRun(ClusterTokens) =>
    /\ \A j \in DOMAIN calls : j = 1 /\ calls[j].op = "Login"
    /\ stdout = <<>>
    /\ Done => /\ exitCode = 1
               /\ LastError.k = "fatal"
               /\ (LastError.s = "Cluster operations are not yet supported :(") <=> Succeeded("Login")

\* C3 witness: a `list cluster` run ended by listClusters after its login.
C3_Witness ==
  /\ ListRun(ClusterTokens)
  /\ Done
  /\ Succeeded("Login")
  /\ LastError.s = "Cluster operations are not yet supported :("

\* C4 as stated: every run attempts Login exactly once.
C4_Original == Done => Cardinality(CallsOf("Login")) = 1

\* C4 amended: Login is attempted at most once, before any other call, and
\* exactly once in every run that has a command and whose client was
\* created; a failed Login ends the run with exit 1, no other call and an
\* empty standard output.
C4_LoginOnceAndFirst ==
  /\ Cardinality(CallsOf("Login")) <= 1
  /\ calls # <<>> => calls[1].op = "Login"
  /\ ( /\ pc \notin {"start", "newClient", "login"}
       /\ Command # ""
       /\ ~(stderr # <<>> /\ LastError.s = "Failed to create client") )
     => Cardinality(CallsOf("Login")) = 1
  /\ Failed("Login") =>
       /\ Done
       /\ exitCode = 1
       /\ Len(calls) = 1
       /\ stdout = <<>>

\* C4 witness: a `list vm` run ended by its failed login.
C4_Witness ==
  /\ ListRun(VmTokens)
  /\ Done
  /\ Failed("Login")

\* C5 as stated: the principal passed to Login contains exactly one "@".
C5_Original == calls # <<>> => CountAt(usernameWithRealm) = 1

\* C5 amended: the principal passed to Login contains at least one "@", and
\* exactly one precisely when the username contains exactly one, or the
\* username contains none and the realm contains none.
C5_PrincipalAtCount ==
  calls # <<>> =>
    /\ CountAt(usernameWithRealm) >= 1
    /\ CountAt(usernameWithRealm) = 1 <=>
         \/ CountAt(username) = 1
         \/ CountAt(username) = 0 /\ CountAt(realm) = 0

\* C5 witness: Login was called for a bare, non-empty username and a realm
\* without "@".
C5_Witness ==
  /\ calls # <<>>
  /\ username # <<>>
  /\ realm # <<>>
  /\ CountAt(username) = 0
  /\ CountAt(realm) = 0
  /\ CountAt(usernameWithRealm) = 1

\* C6 as stated: a help run ends with exit code 0 whatever the collaborator
\* calls return.
C6_Original == (Command \in HelpCommands /\ Done) => exitCode = 0

\* C6 amended: a help run ends with exit code 0 exactly when the client was
\* created and Login succeeded, and then its help output is printed; else it
\* ends with exit code 1 and prints nothing.  It makes no call but Login.
C6_HelpExitsZeroAfterLogin ==
  (Command \in HelpCommands /\ Done) =>
    /\ exitCode = 0 <=> Succeeded("Login")
    /\ exitCode = 0 => stdout = (IF NArg = 2 THEN HelpLines(Command) ELSE UsageLines)
    /\ exitCode # 0 => exitCode = 1 /\ stdout = <<>>
    /\ \A j \in DOMAIN calls : calls[j].op = "Login"

\* C6 witness: `help <command>` ended with exit code 0.
C6_Witness ==
  /\ Command \in HelpCommands
  /\ NArg = 2
  /\ Done
  /\ exitCode = 0

\* The tokens no case of the two switches names; "login", which the usage
\* text lists as a command, is left out.
Unrecognized ==
  \/ Command # "" /\ Command \notin HelpCommands \cup ListCommands \cup {"login"}
  \/ /\ Command \in ListCommands
     /\ Arg(1) \notin ClusterTokens \cup NodeTokens \cup StorageTokens \cup VmTokens

C8_Original ==
  (skipTLSVerify /\ calls # <<>>) =>
    /\ \A j \in DOMAIN calls : calls[j].insecure
    /\ \E l \in DOMAIN stderr : stderr[l].k = "warning"

\* C8 amended: every call, Login included, runs with certificate validation
\* disabled exactly when -skiptls is set; no warning is written for it: the
\* only diagnostic that mentions it is the -debug line, and without -debug
\* the diagnostic stream stays empty until a fatal error or a panic.
C8_TransportFollowsFlag ==
  /\ \A j \in DOMAIN calls : calls[j].insecure <=> skipTLSVerify
  /\ \A l \in DOMAIN stderr :
       /\ stderr[l].k \in {"debug", "fatal", "panic"}
       /\ stderr[l].k = "debug" => debug /\ l = 1
       /\ stderr[l].k \in {"fatal", "panic"} => Done /\ l = Len(stderr)

\* C8 witness: a -skiptls run without -debug that logged in and made a
\* later call, with nothing on the diagnostic stream.
C8_Witness ==
  /\ skipTLSVerify
  /\ ~debug
  /\ Len(calls) >= 2
  /\ calls[2].insecure
  /\ stderr = <<>>

\* C9: in `list vm`, each of the three per-record calls is made at most once
\* per record, GetVmConfig right after a successful GetVmRefByName of the
\* same record, GetVmAgentNetworkInterfaces right after a successful
\* GetVmConfig of the same record, and a failed GetVmRefByName or
\* GetVmConfig is the last call of a run that exits non-zero.
C9_VmCallOrder ==
  /\ \A j, k \in DOMAIN calls :
       (j # k /\ calls[j].op \in VmOps /\ calls[j].op = calls[k].op) => calls[j].i # calls[k].i
  /\ \A j \in CallsOf("GetVmConfig") :
       /\ j > 1
       /\ calls[j - 1].op = "GetVmRefByName"
       /\ calls[j - 1].i = calls[j].i
       /\ calls[j - 1].ok
  /\ \A j \in CallsOf("GetVmAgentNetworkInterfaces") :
       /\ j > 1
       /\ calls[j - 1].op = "GetVmConfig"
       /\ calls[j - 1].i = calls[j].i
       /\ calls[j - 1].ok
  /\ \A j \in CallsOf("GetVmRefByName") \cup CallsOf("GetVmConfig") :
       ~calls[j].ok => Done /\ exitCode = 1 /\ j = Len(calls)

\* C9 witness: the first record went through its three calls and the
\* second record's GetVmConfig failed.
C9_Witness ==
  /\ \E j \in CallsOf("GetVmAgentNetworkInterfaces") : calls[j].i = 1
  /\ \E j \in CallsOf("GetVmConfig") : calls[j].i = 2 /\ ~calls[j].ok

\* C10: a node record whose identity is missing or not a string never
\* aborts `list node` (an empty header line, its attributes and every later
\* record are printed, exit 0), and faults `list storage` before
\* ListStorages is called for it: nothing is printed or called for it or for
\* a later node, and a run that reaches it ends with the panic's exit code.
C10_MalformedNodeIdentity ==
  /\ ListRun(NodeTokens) =>
       /\ exitCode # 2
       /\ (Done /\ Succeeded("GetNodeList")) =>
            /\ exitCode = 0
            /\ \A i \in 1..Len(listing) :
                 /\ Printed(Line("nodeHeader", i, NameOrEmpty(listing[i].id)))
                 /\ \A a \in listing[i].attrs : Printed(Line("nodeAttr", i, a))
  /\ ListRun(StorageTokens) =>
       \A i \in 1..Len(listing) :
         Malformed(i) =>
           /\ \A j \in CallsOf("ListStorages") : calls[j].i < i
           /\ \A l \in DOMAIN stdout : stdout[l].i < i
           /\ Done => exitCode # 0
           /\ (Done /\ (\A j \in DOMAIN calls : calls[j].ok) /\ LastError.s # "storage") =>
                /\ exitCode = 2
                /\ LastError.k = "panic"
                /\ Malformed(LastError.i)
                /\ LastError.i <= i

\* C10 witness: `list storage` listed the storages of a well-formed first
\* node and faulted on a second node without a string identity.
C10_Witness ==
  /\ ListRun(StorageTokens)
  /\ Len(listing) = 2
  /\ Malformed(2)
  /\ \E j \in CallsOf("ListStorages") : calls[j].i = 1 /\ calls[j].ok
  /\ Done
  /\ exitCode = 2
  /\ LastError = Line("panic", 2, "node")

====
